---- MODULE Spec2Model ----
(***************************************************************************)
(* A model of the wc clone in src/src/main.rs: the scanner count(), the    *)
(* aggregator calculate_total_and_max_width_per_column(), the formatter    *)
(* print_metrics() and the driver print_count()/main().                    *)
(*                                                                         *)
(* Text is a sequence of Unicode code points (integers); a file holds the  *)
(* UTF-8 encoding of its text.  Output is a sequence of rows, each row a   *)
(* sequence of one-character strings ending in "\n".                       *)
(***************************************************************************)
EXTENDS Integers, Sequences, FiniteSets, TLC

VARIABLES
    files,        \* the FILE arguments: <<[name, exists, text]>>
    capacity,     \* capacity of the BufReader (bytes)
    opts,         \* ShowOptions
    pc,           \* position in print_count/main
    idx,          \* index of the file count() is working on
    m,            \* count()'s Metrics accumulator
    unread,       \* bytes of the open file not yet read by the BufReader
    buf,          \* bytes held by the BufReader and not yet consumed
    all_metrics,  \* print_count's vector of per-file Metrics
    total,        \* the total record
    mwpc,         \* the maximum width per column record
    printed,      \* number of per-file rows already printed
    out,          \* rows written to the output sink
    result,       \* outcome of print_count: "Running", "Ok", "Err", "Panic", "Runaway"
    exit_code     \* process exit status, -1 while the process runs

vars == <<files, capacity, opts, pc, idx, m, unread, buf, all_metrics,
          total, mwpc, printed, out, result, exit_code>>

-----------------------------------------------------------------------------
(* Bounds of the model *)

MaxFiles == 3
MaxLen == 3
MaxCapacity == 3

Capacities == 1..MaxCapacity

\* code points: tab, line feed, space, 'a', U+00E9 (two bytes in UTF-8)
Alphabet == {9, 10, 32, 97, 233}

RECURSIVE SeqsUpTo(_, _)
SeqsUpTo(S, n) ==
    IF n = 0 THEN {<<>>}
    ELSE LET shorter == SeqsUpTo(S, n - 1)
         IN  shorter \cup {Append(s, x) : s \in {t \in shorter : Len(t) = n - 1}, x \in S}

Max(a, b) == IF a > b THEN a ELSE b

Take(s, n) == SubSeq(s, 1, IF n < Len(s) THEN n ELSE Len(s))
Drop(s, n) == SubSeq(s, (IF n < Len(s) THEN n ELSE Len(s)) + 1, Len(s))

-----------------------------------------------------------------------------
(* UTF-8 and character classes (code points below U+0800) *)

len_utf8(c) == IF c < 128 THEN 1 ELSE 2

EncodeChar(c) == IF c < 128 THEN <<c>> ELSE <<192 + (c \div 64), 128 + (c % 64)>>

RECURSIVE Encode(_)
Encode(text) == IF text = <<>> THEN <<>> ELSE EncodeChar(Head(text)) \o Encode(Tail(text))

\* std::str::from_utf8: [ok, chars]; ok is FALSE (Utf8Error) when the bytes are
\* not a whole number of well-formed sequences
RECURSIVE from_utf8(_)
from_utf8(bytes) ==
    IF bytes = <<>> THEN [ok |-> TRUE, chars |-> <<>>]
    ELSE LET b == Head(bytes)
         IN  IF b < 128
             THEN LET rest == from_utf8(Tail(bytes))
                  IN  [ok |-> rest.ok, chars |-> <<b>> \o rest.chars]
             ELSE IF b >= 194 /\ b <= 223 /\ Len(bytes) >= 2
                     /\ bytes[2] >= 128 /\ bytes[2] <= 191
             THEN LET rest == from_utf8(Tail(Tail(bytes)))
                  IN  [ok |-> rest.ok,
                       chars |-> <<(b - 192) * 64 + (bytes[2] - 128)>> \o rest.chars]
             ELSE [ok |-> FALSE, chars |-> <<>>]

\* char::is_whitespace, restricted to code points below U+0800
is_whitespace(c) == (c >= 9 /\ c <= 13) \/ c = 32 \/ c = 133 \/ c = 160

-----------------------------------------------------------------------------
(* count(): the scanner *)

NewMetrics(filename) ==
    [bytes |-> 0, chars |-> 0, lines |-> 0, words |-> 0, max_line_length |-> 0,
     filename |-> filename]

\* one pass of the body of `for c in s.chars()`; st.stop is the `break`
CharStep(st, c) ==
    LET st1 == [st EXCEPT !.bytes = @ + len_utf8(c), !.chars = @ + 1]
    IN  IF c = 10
        THEN [st1 EXCEPT !.lines = @ + 1, !.stop = TRUE]
        ELSE IF is_whitespace(c)
        THEN [st1 EXCEPT !.last = "SomeTrue",
                         !.max_line_length = IF c = 9 THEN @ + 7 ELSE @]
        ELSE [st1 EXCEPT !.words = IF st.last = "SomeTrue" THEN @ + 1 ELSE @,
                         !.last = "SomeFalse"]

RECURSIVE ForChars(_, _)
ForChars(st, s) ==
    IF s = <<>> \/ st.stop THEN st ELSE ForChars(CharStep(st, Head(s)), Tail(s))

\* the word still open when the inner loop ends
AfterChars(st) == IF st.last = "SomeFalse" THEN [st EXCEPT !.words = @ + 1] ELSE st

\* one iteration of the outer loop on a decoded, non-empty buffer:
\* the new accumulator and the number of bytes to consume
LoopBody(acc, s) ==
    LET st0 == [bytes |-> 0, chars |-> acc.chars, lines |-> acc.lines,
                words |-> acc.words, max_line_length |-> acc.max_line_length,
                last |-> "None", stop |-> FALSE]
        st  == AfterChars(ForChars(st0, s))
    IN  [m |-> [acc EXCEPT !.bytes = @ + st.bytes, !.chars = st.chars,
                           !.lines = st.lines, !.words = st.words,
                           !.max_line_length = st.max_line_length],
         consumed |-> st.bytes]

\* BufReader::fill_buf: reads from the file only when the buffer is used up
FillBuf(b, u, cap) ==
    IF b = <<>> THEN [buffer |-> Take(u, cap), unread |-> Drop(u, cap)]
    ELSE [buffer |-> b, unread |-> u]

-----------------------------------------------------------------------------
(* calculate_total_and_max_width_per_column(): the aggregator *)

DigitChars == <<"0", "1", "2", "3", "4", "5", "6", "7", "8", "9">>

\* usize::to_string
RECURSIVE to_string(_)
to_string(n) ==
    IF n < 10 THEN <<DigitChars[n + 1]>>
    ELSE Append(to_string(n \div 10), DigitChars[(n % 10) + 1])

\* the loop body's update of `total`, with max_line_length summed instead
TotalStep_SumsMaxLineLength(t, m_x) ==
    [t EXCEPT !.bytes = @ + m_x.bytes, !.chars = @ + m_x.chars,
              !.lines = @ + m_x.lines, !.words = @ + m_x.words,
              !.max_line_length = @ + m_x.max_line_length]

\* the loop body's update of `total`
TotalStep(t, m_x) ==
    [t EXCEPT !.bytes = @ + m_x.bytes, !.chars = @ + m_x.chars,
              !.lines = @ + m_x.lines, !.words = @ + m_x.words,
              !.max_line_length = Max(@, m_x.max_line_length)]

\* the loop body's update of `mwpc`; max_line_length is left alone
WidthStep(w, m_x) ==
    [w EXCEPT !.bytes = Max(@, m_x.bytes), !.chars = Max(@, m_x.chars),
              !.lines = Max(@, m_x.lines), !.words = Max(@, m_x.words)]

RECURSIVE ForMetrics(_, _)
ForMetrics(acc, ms) ==
    IF ms = <<>> THEN acc
    ELSE ForMetrics([total |-> TotalStep(acc.total, Head(ms)),
                     mwpc |-> WidthStep(acc.mwpc, Head(ms))], Tail(ms))

MinWidth == 8

\* after the loop: the largest value of each column becomes its digit count
FinishWidths(w) ==
    [w EXCEPT !.bytes = Max(Len(to_string(@)), MinWidth),
              !.chars = Max(Len(to_string(@)), MinWidth),
              !.lines = Max(Len(to_string(@)), MinWidth),
              !.words = Max(Len(to_string(@)), MinWidth)]

TotalLabel == <<"t", "o", "t", "a", "l">>

calculate_total_and_max_width_per_column(ms) ==
    LET r == ForMetrics([total |-> NewMetrics(TotalLabel), mwpc |-> NewMetrics(<<>>)], ms)
    IN  [total |-> r.total, mwpc |-> FinishWidths(r.mwpc)]

-----------------------------------------------------------------------------
(* print_metrics(): the formatter *)

is_default(o) == ~(o.chars \/ o.words \/ o.bytes \/ o.max_line_length \/ o.lines)

\* The fields print_metrics writes, in order, each with the width it computes
\* as an integer (the code computes it in usize): remove_column is 1 once a
\* field has been written.
Fields(mx, o, w) ==
    LET d  == is_default(o)
        f1 == IF d \/ o.lines THEN <<[value |-> mx.lines, width |-> w.lines]>> ELSE <<>>
        r1 == IF d \/ o.lines THEN 1 ELSE 0
        f2 == IF d \/ o.words
              THEN Append(f1, [value |-> mx.words, width |-> w.words - r1]) ELSE f1
        r2 == IF d \/ o.words THEN 1 ELSE r1
        f3 == IF o.chars
              THEN Append(f2, [value |-> mx.chars, width |-> w.chars - r2]) ELSE f2
        r3 == IF o.chars THEN 1 ELSE r2
        f4 == IF d \/ o.bytes
              THEN Append(f3, [value |-> mx.bytes, width |-> w.bytes - r3]) ELSE f3
        r4 == IF d \/ o.bytes THEN 1 ELSE r3
    IN  IF o.max_line_length
        THEN Append(f4, [value |-> mx.max_line_length,
                         width |-> w.max_line_length - r4])
        ELSE f4

\* a usize subtraction in print_metrics goes below zero
Underflows(o, w) ==
    \E i \in 1..Len(Fields(w, o, w)) : Fields(w, o, w)[i].width < 0

RECURSIVE Spaces(_)
Spaces(n) == IF n <= 0 THEN <<>> ELSE Append(Spaces(n - 1), " ")

\* "{:>width$} ": right-justified, never truncated, then one space
FormatField(f) ==
    LET digits == to_string(f.value)
    IN  Spaces(f.width - Len(digits)) \o digits \o <<" ">>

RECURSIVE FormatFields(_)
FormatFields(fs) ==
    IF fs = <<>> THEN <<>> ELSE FormatField(Head(fs)) \o FormatFields(Tail(fs))

\* the text of one row: the fields, the file name, the line terminator
print_metrics(mx, o, w) == FormatFields(Fields(mx, o, w)) \o mx.filename \o <<"\n">>

-----------------------------------------------------------------------------
(* Inputs *)

FileName(i) == <<"f">> \o to_string(i)

\* what a path can name: no file, or a file holding the UTF-8 of a text
ProgramFiles ==
    { [exists |-> FALSE, text |-> <<>>],
      [exists |-> TRUE, text |-> <<97, 32, 97, 10>>],
      [exists |-> TRUE, text |-> <<97, 233>>],
      [exists |-> TRUE, text |-> <<9, 10>>] }

NamedFiles(choice) ==
    [i \in DOMAIN choice |->
        [name |-> FileName(i), exists |-> choice[i].exists, text |-> choice[i].text]]

FileLists == {NamedFiles(c) : c \in UNION {[1..n -> ProgramFiles] : n \in 0..MaxFiles}}

\* ShowOptions as clap hands them over: -c and -m override each other
OptionSets ==
    {o \in [lines : BOOLEAN, words : BOOLEAN, chars : BOOLEAN, bytes : BOOLEAN,
            max_line_length : BOOLEAN] : ~(o.chars /\ o.bytes)}

DefaultOptions ==
    [lines |-> FALSE, words |-> FALSE, chars |-> FALSE, bytes |-> FALSE,
     max_line_length |-> FALSE]

\* per-file records for the aggregator and the formatter taken on their own
SampleMetrics ==
    { [bytes |-> 2, chars |-> 2, lines |-> 1, words |-> 1, max_line_length |-> 0],
      [bytes |-> 1234, chars |-> 1234, lines |-> 56, words |-> 789, max_line_length |-> 7],
      [bytes |-> 99999999, chars |-> 99999999, lines |-> 1234567, words |-> 7654321,
       max_line_length |-> 0],
      [bytes |-> 500000000, chars |-> 400000000, lines |-> 99999999,
       words |-> 123456789, max_line_length |-> 14] }

NamedMetrics(choice) ==
    [i \in DOMAIN choice |->
        [bytes |-> choice[i].bytes, chars |-> choice[i].chars, lines |-> choice[i].lines,
         words |-> choice[i].words, max_line_length |-> choice[i].max_line_length,
         filename |-> FileName(i)]]

MetricsLists == {NamedMetrics(c) : c \in UNION {[1..n -> SampleMetrics] : n \in 1..MaxFiles}}

-----------------------------------------------------------------------------
(* Initial states *)

InitRest ==
    /\ idx = 1
    /\ m = NewMetrics(<<>>)
    /\ unread = <<>>
    /\ buf = <<>>
    /\ total = NewMetrics(<<>>)
    /\ mwpc = NewMetrics(<<>>)
    /\ printed = 0
    /\ out = <<>>
    /\ result = "Running"
    /\ exit_code = -1

\* the program started on a list of paths
Init ==
    /\ files \in FileLists
    /\ capacity \in Capacities
    /\ opts \in OptionSets
    /\ pc = "count"
    /\ all_metrics = <<>>
    /\ InitRest

\* count() called on one file of any text up to MaxLen characters
InitCount ==
    /\ files \in {NamedFiles(<<[exists |-> TRUE, text |-> t]>>) : t \in SeqsUpTo(Alphabet, MaxLen)}
    /\ capacity \in Capacities
    /\ opts = DefaultOptions
    /\ pc = "count"
    /\ all_metrics = <<>>
    /\ InitRest

\* the aggregator and the formatter called on given records, as the unit tests do
InitFmt ==
    /\ files = <<>>
    /\ capacity = 1
    /\ opts \in OptionSets
    /\ pc = "calc"
    /\ all_metrics \in MetricsLists
    /\ InitRest

-----------------------------------------------------------------------------
(* Actions *)

\* print_count when clap reports no FILE argument: the empty stdin branch
Stdin ==
    /\ pc = "count"
    /\ files = <<>>
    /\ result' = "Ok"
    /\ pc' = "exit"
    /\ UNCHANGED <<files, capacity, opts, idx, m, unread, buf, all_metrics, total, mwpc,
                   printed, out, exit_code>>

\* count(): the accumulator is set up and File::open succeeds
Open ==
    /\ pc = "count"
    /\ idx \in 1..Len(files)
    /\ files[idx].exists
    /\ m' = NewMetrics(files[idx].name)
    /\ unread' = Encode(files[idx].text)
    /\ buf' = <<>>
    /\ pc' = "loop"
    /\ UNCHANGED <<files, capacity, opts, idx, all_metrics, total, mwpc, printed, out,
                   result, exit_code>>

\* a failing file is skipped and the next one is counted
OpenFail_SkipsFile ==
    /\ pc = "count"
    /\ idx \in 1..Len(files)
    /\ ~files[idx].exists
    /\ idx' = idx + 1
    /\ pc' = IF idx < Len(files) THEN "count" ELSE "calc"
    /\ UNCHANGED <<files, capacity, opts, m, unread, buf, all_metrics, total, mwpc,
                   printed, out, result, exit_code>>

\* count(): File::open fails, `?` returns the error from count and from print_count
OpenFail ==
    /\ pc = "count"
    /\ idx \in 1..Len(files)
    /\ ~files[idx].exists
    /\ result' = "Err"
    /\ pc' = "exit"
    /\ UNCHANGED <<files, capacity, opts, idx, m, unread, buf, all_metrics, total, mwpc,
                   printed, out, exit_code>>

\* count(): one iteration of the loop on a buffer that decodes
ScanLine ==
    /\ pc = "loop"
    /\ LET fb == FillBuf(buf, unread, capacity)
           d  == from_utf8(fb.buffer)
       IN  /\ fb.buffer # <<>>
           /\ d.ok
           /\ LET r == LoopBody(m, d.chars)
              IN  /\ m' = r.m
                  /\ buf' = Drop(fb.buffer, r.consumed)
                  /\ unread' = fb.unread
    /\ UNCHANGED <<files, capacity, opts, pc, idx, all_metrics, total, mwpc, printed, out,
                   result, exit_code>>

\* count(): the buffer is empty, Ok(m) is returned and pushed by print_count
ScanEOF ==
    /\ pc = "loop"
    /\ FillBuf(buf, unread, capacity).buffer = <<>>
    /\ all_metrics' = Append(all_metrics, m)
    /\ idx' = idx + 1
    /\ pc' = IF idx < Len(files) THEN "count" ELSE "calc"
    /\ UNCHANGED <<files, capacity, opts, m, unread, buf, total, mwpc, printed, out,
                   result, exit_code>>

\* count(): the buffer does not decode, InvalidData is returned through print_count
ScanInvalid ==
    /\ pc = "loop"
    /\ LET fb == FillBuf(buf, unread, capacity)
       IN  /\ fb.buffer # <<>>
           /\ ~from_utf8(fb.buffer).ok
           /\ buf' = fb.buffer
           /\ unread' = fb.unread
    /\ result' = "Err"
    /\ pc' = "exit"
    /\ UNCHANGED <<files, capacity, opts, idx, m, all_metrics, total, mwpc, printed, out,
                   exit_code>>

\* print_count: the total and the column widths of all the records
Calculate ==
    /\ pc = "calc"
    /\ LET r == calculate_total_and_max_width_per_column(all_metrics)
       IN  /\ total' = r.total
           /\ mwpc' = r.mwpc
    /\ pc' = "print"
    /\ UNCHANGED <<files, capacity, opts, idx, m, unread, buf, all_metrics, printed, out,
                   result, exit_code>>

\* print_count: the next per-file row
PrintRow ==
    /\ pc = "print"
    /\ printed < Len(all_metrics)
    /\ ~Underflows(opts, mwpc)
    /\ out' = Append(out, print_metrics(all_metrics[printed + 1], opts, mwpc))
    /\ printed' = printed + 1
    /\ pc' = IF printed + 1 = Len(all_metrics) THEN "total" ELSE "print"
    /\ UNCHANGED <<files, capacity, opts, idx, m, unread, buf, all_metrics, total, mwpc,
                   result, exit_code>>

\* print_metrics: a width goes below zero.  With overflow checks the
\* subtraction panics; without them it wraps and the padding never ends.
PrintUnderflow ==
    /\ pc = "print"
    /\ printed < Len(all_metrics)
    /\ Underflows(opts, mwpc)
    /\ \E o \in {"Panic", "Runaway"} :
          /\ result' = o
          /\ exit_code' = IF o = "Panic" THEN 101 ELSE exit_code
    /\ pc' = "done"
    /\ UNCHANGED <<files, capacity, opts, idx, m, unread, buf, all_metrics, total, mwpc,
                   printed, out>>

\* a total row is printed for any number of files
NeedsTotal_Always(n) == n >= 1

\* print_count: `if all_metrics.len() > 1`
NeedsTotal(n) == n > 1

\* print_count: the total row, then Ok(())
PrintTotal ==
    /\ pc = "total"
    /\ NeedsTotal(Len(all_metrics))
    /\ out' = Append(out, print_metrics(total, opts, mwpc))
    /\ result' = "Ok"
    /\ pc' = "exit"
    /\ UNCHANGED <<files, capacity, opts, idx, m, unread, buf, all_metrics, total, mwpc,
                   printed, exit_code>>

\* print_count: no total row, Ok(())
ReturnOk ==
    /\ pc = "total"
    /\ ~NeedsTotal(Len(all_metrics))
    /\ result' = "Ok"
    /\ pc' = "exit"
    /\ UNCHANGED <<files, capacity, opts, idx, m, unread, buf, all_metrics, total, mwpc,
                   printed, out, exit_code>>

\* main: the exit status from print_count's result
Exit ==
    /\ pc = "exit"
    /\ exit_code' = IF result = "Err" THEN 1 ELSE 0
    /\ pc' = "done"
    /\ UNCHANGED <<files, capacity, opts, idx, m, unread, buf, all_metrics, total, mwpc,
                   printed, out, result>>

-----------------------------------------------------------------------------
(* Specifications *)

Next ==
    \/ Stdin
    \/ Open
    \/ OpenFail
    \/ ScanLine
    \/ ScanEOF
    \/ ScanInvalid
    \/ Calculate
    \/ PrintRow
    \/ PrintUnderflow
    \/ PrintTotal
    \/ ReturnOk
    \/ Exit

Spec == Init /\ [][Next]_vars

NextCount ==
    \/ Open
    \/ ScanLine
    \/ ScanEOF
    \/ ScanInvalid

SpecCount == InitCount /\ [][NextCount]_vars

NextFmt ==
    \/ Calculate
    \/ PrintRow
    \/ PrintUnderflow
    \/ PrintTotal
    \/ ReturnOk

SpecFmt == InitFmt /\ [][NextFmt]_vars

-----------------------------------------------------------------------------
(* Reference definitions used by the properties *)

\* number of maximal runs of non-whitespace characters
WordRuns(text) ==
    Cardinality({i \in 1..Len(text) :
                    /\ ~is_whitespace(text[i])
                    /\ (i = 1 \/ is_whitespace(text[i - 1]))})

\* length of line i..j of a text: a tab counts 8, any other character 1
RECURSIVE LineLength(_, _, _)
LineLength(text, i, j) ==
    IF i > j THEN 0
    ELSE (IF text[i] = 9 THEN 8 ELSE 1) + LineLength(text, i + 1, j)

\* the longest line: lines are the stretches between line feeds
MaxLineLength(text) ==
    LET starts == {1} \cup {i + 1 : i \in {k \in 1..Len(text) : text[k] = 10}}
        EndOf(a) == IF \E k \in a..Len(text) : text[k] = 10
                    THEN (CHOOSE k \in a..Len(text) :
                             text[k] = 10 /\ \A l \in a..(k - 1) : text[l] # 10) - 1
                    ELSE Len(text)
        lens == {LineLength(text, a, EndOf(a)) : a \in starts}
    IN  CHOOSE x \in lens : \A y \in lens : y <= x

\* count() on a buffer that holds the whole file: no chunk boundary at all
RECURSIVE CountRest(_, _)
CountRest(acc, bytes) ==
    IF bytes = <<>> THEN acc
    ELSE LET r == LoopBody(acc, from_utf8(bytes).chars)
         IN  CountRest(r.m, Drop(bytes, r.consumed))

CountContiguous(f) == CountRest(NewMetrics(f.name), Encode(f.text))

RECURSIVE SumOf(_, _)
SumOf(ms, field) == IF ms = <<>> THEN 0 ELSE Head(ms)[field] + SumOf(Tail(ms), field)

LargestOf(ms, field) ==
    CHOOSE x \in {ms[i][field] : i \in 1..Len(ms)} :
        \A i \in 1..Len(ms) : ms[i][field] <= x

Selected(o) ==
    {k \in {"lines", "words", "chars", "bytes", "max_line_length"} : o[k]}

\* the file name of a row: what follows its last space, without the "\n"
LabelOf(row) ==
    LET last == CHOOSE i \in 1..Len(row) :
                    row[i] = " " /\ \A j \in (i + 1)..Len(row) : row[j] # " "
    IN  SubSeq(row, last + 1, Len(row) - 1)

\* the columns at which the numeric fields of a row end, in order
FieldEnds(row) == {i \in 1..(Len(row) - 1) : row[i] # " " /\ row[i + 1] = " "}

\* the column at which the k-th numeric field of a row ends
NthFieldEnd(row, k) ==
    CHOOSE i \in FieldEnds(row) : Cardinality({j \in FieldEnds(row) : j <= i}) = k

WordsFieldIndex(o) == IF is_default(o) \/ o.lines THEN 2 ELSE 1

-----------------------------------------------------------------------------
(* Properties of count(), checked under SpecCount *)

\* C1: the words count() returns for a file is the number of maximal runs of
\* non-whitespace characters of its text.
C1_WordsAreMaximalRuns ==
    \A i \in 1..Len(all_metrics) : all_metrics[i].words = WordRuns(files[i].text)

\* C8: the max_line_length count() returns is the length of the longest line,
\* a tab counting 8 and every other character except "\n" counting 1.
C8_MaxLineLengthIsLongestLine ==
    \A i \in 1..Len(all_metrics) :
        all_metrics[i].max_line_length = MaxLineLength(files[i].text)

\* C10: whatever the buffer capacity, count() succeeds on valid UTF-8 and
\* returns what it returns when the whole file is one buffer.
C10_ChunkingIsUnobservable ==
    /\ result # "Err"
    /\ \A i \in 1..Len(all_metrics) : all_metrics[i] = CountContiguous(files[i])

-----------------------------------------------------------------------------
(* Properties of the aggregator and the formatter, checked under SpecFmt *)

\* C2: with one file and exactly one metric selected the row is the digits of
\* the value, one space, the file name and the line terminator.
C2_SingleMetricHasNoPadding ==
    (Len(all_metrics) = 1 /\ Len(out) = 1 /\ Cardinality(Selected(opts)) = 1)
        => \A k \in Selected(opts) :
              out[1] = to_string(all_metrics[1][k]) \o <<" ">>
                          \o all_metrics[1].filename \o <<"\n">>

\* C3: the total record holds the sums of lines, words, bytes and chars, the
\* maximum of max_line_length and the label "total", and computing it leaves
\* the per-file records as they were.
C3_TotalIsSumAndMax ==
    [][pc = "calc" =>
          /\ total'.lines = SumOf(all_metrics, "lines")
          /\ total'.words = SumOf(all_metrics, "words")
          /\ total'.bytes = SumOf(all_metrics, "bytes")
          /\ total'.chars = SumOf(all_metrics, "chars")
          /\ total'.max_line_length = LargestOf(all_metrics, "max_line_length")
          /\ total'.filename = TotalLabel
          /\ all_metrics' = all_metrics]_vars

C3_Witness ==
    /\ pc = "print"
    /\ Len(all_metrics) = 2
    /\ all_metrics[1].max_line_length = 7
    /\ all_metrics[2].max_line_length = 14
    /\ total.max_line_length = 14
    /\ total.bytes = 500001234

\* C6: the width of the lines, words, chars and bytes columns is the larger
\* of 8 and the digit count of the largest value of the column over all rows,
\* the total row included.
C6_WidthsCoverTotal ==
    pc \in {"print", "total", "exit", "done"} =>
        \A k \in {"lines", "words", "chars", "bytes"} :
            mwpc[k] = Max(MinWidth,
                          Len(to_string(Max(LargestOf(all_metrics, k), total[k]))))

\* C7: with two files whose words values differ in digit count, the words
\* field ends at the same column in both rows.
C7_WordsFieldsAligned ==
    ( /\ Len(all_metrics) = 2
      /\ Len(out) >= 2
      /\ is_default(opts) \/ opts.words
      /\ Len(to_string(all_metrics[1].words)) # Len(to_string(all_metrics[2].words)) )
        => NthFieldEnd(out[1], WordsFieldIndex(opts))
             = NthFieldEnd(out[2], WordsFieldIndex(opts))

\* C9: every field width print_metrics computes is non-negative, so that no
\* subtraction underflows and every row is rendered.
C9_WidthsNeverUnderflow ==
    /\ pc = "print" =>
          \A i \in 1..Len(Fields(mwpc, opts, mwpc)) : Fields(mwpc, opts, mwpc)[i].width >= 0
    /\ result \notin {"Panic", "Runaway"}

-----------------------------------------------------------------------------
(* Properties of print_count and main, checked under Spec *)

\* C4: the rows come out in the order of the path list, a total row follows
\* them as the last row exactly when there is more than one file, and a
\* successful run has written all of them.
C4_RowsInOrderThenTotal ==
    /\ \A i \in 1..Len(out) :
          IF i <= Len(files)
          THEN LabelOf(out[i]) = files[i].name
          ELSE i = Len(files) + 1 /\ Len(files) > 1 /\ LabelOf(out[i]) = TotalLabel
    /\ result = "Ok" =>
          Len(out) = Len(files) + (IF Len(files) > 1 THEN 1 ELSE 0)

C4_Witness ==
    /\ result = "Ok"
    /\ Len(files) = 2
    /\ Len(out) = 3
    /\ LabelOf(out[3]) = TotalLabel

\* C5: when count() fails for a file, no later file is scanned, nothing is
\* ever written, not even the rows of the files scanned before it, and the
\* process exits with a non-zero status.
C5_FailureAbortsWithoutOutput ==
    /\ \A n \in 1..Len(files) : ~files[n].exists => (idx <= n /\ out = <<>>)
    /\ result = "Err" =>
          /\ out = <<>>
          /\ Len(all_metrics) = idx - 1
          /\ pc \in {"exit", "done"}
          /\ pc = "done" => exit_code # 0

C5_Witness ==
    /\ pc = "done"
    /\ exit_code = 1
    /\ Len(files) = 3
    /\ idx = 2
    /\ ~files[2].exists
    /\ files[3].exists
    /\ Len(all_metrics) = 1
    /\ out = <<>>

====
